---- MODULE Spec2Model ----
(***************************************************************************)
(* Model of src/Naive Bayes/naivebayes.ipynb: parse_tfrecord,              *)
(* extract_features, process_dataset and the train / evaluate cells.       *)
(*                                                                         *)
(* Numbers.  A float32 tensor entry is an integer in -FltMax..FltMax (a    *)
(* fixed-point value) or one of PInf, NInf, NaN.  Audio samples and        *)
(* spectrogram magnitudes count in units of 1e-6, window, twiddle and mel  *)
(* weights in units of 1/ONE, logarithms in units of 1/1000 (milli-nats),  *)
(* metadata entries in whole units.  A finite result beyond FltMax         *)
(* overflows to an infinity, as float32 arithmetic does; Inf - Inf and     *)
(* Inf * 0 are NaN.  The signal sizes AUDIO_LEN, FFT_SIZE and HOP are      *)
(* scaled down from 64000, 1024 and 256; N_MELS, SR, the mel band edges,   *)
(* the 10 quality flags and the split sizes are those of the notebook.     *)
(***************************************************************************)
EXTENDS Integers, Sequences, FiniteSets, TLC

\* ---------------------------------------------------------------- sizes

\* Scaled-down signal sizes (64000 / 1024 / 256 in the notebook).
AUDIO_LEN == 6
FFT_SIZE == 4
HOP == 1
\* Largest finite magnitude of the float model (3.4e38 for float32).
FltMax == 67108864
\* Largest number of records of the training file, and of an evaluation file.
MaxTrain == 2
MaxEval == 1

\* Program constants.
SR == 16000
N_MELS == 128
LOWER_EDGE_HERTZ == 30
QUALITIES_LEN == 10
\* float32 has a 24-bit significand.
MantBits == 24
\* 1e-6 in units of 1e-6.
EPS == 1
\* Fixed-point one of the window, twiddle and mel weights.
ONE == 1000
\* 1000 * ln(1e-6), rounded down: the logarithm of one unit.
LN_UNIT == -13816

\* ---------------------------------------------------------------- float32

PInf == FltMax + 1
NInf == 0 - PInf
NaN == FltMax + 2

IsNaN(a) == a = NaN
IsInf(a) == a = PInf \/ a = NInf
IsFinite(a) == ~IsNaN(a) /\ ~IsInf(a)

Abs(v) == IF v < 0 THEN 0 - v ELSE v

\* A computed finite value, overflowing to an infinity beyond FltMax.
Sat(v) == IF v > FltMax THEN PInf ELSE IF v < 0 - FltMax THEN NInf ELSE v

FAdd(a, b) ==
    IF IsNaN(a) \/ IsNaN(b) THEN NaN
    ELSE IF IsInf(a) /\ IsInf(b) THEN (IF a = b THEN a ELSE NaN)
    ELSE IF IsInf(a) THEN a
    ELSE IF IsInf(b) THEN b
    ELSE Sat(a + b)

FNeg(a) == IF IsNaN(a) THEN NaN ELSE 0 - a

\* a * (w / ONE) for a float a and a finite fixed-point factor w.
FScale(a, w) ==
    IF IsNaN(a) THEN NaN
    ELSE IF IsInf(a) THEN (IF w = 0 THEN NaN ELSE IF w > 0 THEN a ELSE 0 - a)
    ELSE Sat((a \div ONE) * w + ((a % ONE) * w) \div ONE)

\* The sum of s[1..n], added left to right.
RECURSIVE FSumTo(_, _)
FSumTo(s, n) == IF n = 0 THEN 0 ELSE FAdd(FSumTo(s, n - 1), s[n])

FSum(s) == FSumTo(s, Len(s))

RECURSIVE Pow2(_)
Pow2(e) == IF e = 0 THEN 1 ELSE 2 * Pow2(e - 1)

\* floor(log2(v)) for v >= 1.
RECURSIVE FloorLog2(_)
FloorLog2(v) == IF v < 2 THEN 0 ELSE 1 + FloorLog2(v \div 2)

\* floor(sqrt(v)) for v >= 0.
RECURSIVE SqrtBetween(_, _, _)
SqrtBetween(v, lo, hi) ==
    IF lo >= hi THEN lo
    ELSE LET mid == (lo + hi + 1) \div 2
         IN IF mid <= v \div mid THEN SqrtBetween(v, mid, hi) ELSE SqrtBetween(v, lo, mid - 1)

Isqrt(v) == IF v <= 0 THEN 0 ELSE SqrtBetween(v, 1, 46340)

\* |re + i im| (tf.abs of a complex64): an infinite part gives +Inf, else a NaN
\* part gives NaN; large parts are scaled so that the squares stay in range.
FHypot(re, im) ==
    IF IsInf(re) \/ IsInf(im) THEN PInf
    ELSE IF IsNaN(re) \/ IsNaN(im) THEN NaN
    ELSE LET big == IF Abs(re) > Abs(im) THEN Abs(re) ELSE Abs(im)
             s == big \div 30000 + 1
         IN Sat(Isqrt((Abs(re) \div s) * (Abs(re) \div s) + (Abs(im) \div s) * (Abs(im) \div s)) * s)

\* 1000 * ln(v) for an integer v >= 1: the binary logarithm, linear between
\* powers of two, times ln 2.
Ln1000(v) ==
    LET e == FloorLog2(v)
        p == Pow2(e)
        frac == ((v - p) * 1000) \div p
    IN ((e * 1000 + frac) * 693) \div 1000

\* tf.math.log of a value counted in units of 1e-6, in milli-nats.
FLog(a) ==
    IF IsNaN(a) \/ a = NInf THEN NaN
    ELSE IF a = PInf THEN PInf
    ELSE IF a < 0 THEN NaN
    ELSE IF a = 0 THEN NInf
    ELSE Ln1000(a) + LN_UNIT

\* tf.reduce_mean of a sequence of floats.
FMean(s) ==
    LET t == FSum(s)
    IN IF IsFinite(t) THEN t \div Len(s) ELSE t

\* tf.cast(int64 -> float32): round to MantBits significant bits, ties to even.
CastFloat32(n) ==
    LET a == Abs(n)
        e == FloorLog2(IF a = 0 THEN 1 ELSE a)
        ulp == IF e < MantBits THEN 1 ELSE Pow2(e - MantBits + 1)
        q == a \div ulp
        r == a % ulp
        up == (2 * r > ulp) \/ (2 * r = ulp /\ q % 2 = 1)
        m == (IF up THEN q + 1 ELSE q) * ulp
    IN IF n < 0 THEN 0 - m ELSE m

\* ---------------------------------------------------------------- signal

\* ONE * sin(x degrees) for 0 <= x < 360 (Bhaskara's rational form, exact at
\* the multiples of 90 degrees).
SinDeg(x) ==
    LET h(z) == (4 * ONE * z * (180 - z)) \div (40500 - z * (180 - z))
    IN IF x <= 180 THEN h(x) ELSE 0 - h(x - 180)

\* ONE * cos(2 pi k / n) and ONE * sin(2 pi k / n).
CosTurn(k, n) == SinDeg((((360 * (k % n)) \div n) + 90) % 360)
SinTurn(k, n) == SinDeg((360 * (k % n)) \div n)

\* tf.signal.hann_window(n, periodic=True)[i], the default window of stft.
HannWindow(i, n) == (ONE - CosTurn(i, n)) \div 2

\* tf.signal.frame (pad_end=False): the number of frames of a signal.
NumFrames(len) == IF len < FFT_SIZE THEN 0 ELSE 1 + (len - FFT_SIZE) \div HOP

\* num_spectrogram_bins = FFT_SIZE // 2 + 1.
NumBins == FFT_SIZE \div 2 + 1

\* Frame t (0-based) of the signal, windowed.
WindowedFrame(audio, t) ==
    [i \in 1..FFT_SIZE |-> FScale(audio[t * HOP + i], HannWindow(i - 1, FFT_SIZE))]

\* Bin k (0-based) of the real FFT of a frame: its real and imaginary part.
RfftRe(frame, k) ==
    FSum([i \in 1..FFT_SIZE |-> FScale(frame[i], CosTurn(k * (i - 1), FFT_SIZE))])
RfftIm(frame, k) ==
    FNeg(FSum([i \in 1..FFT_SIZE |-> FScale(frame[i], SinTurn(k * (i - 1), FFT_SIZE))]))

\* tf.abs(tf.signal.stft(audio, FFT_SIZE, HOP, FFT_SIZE)): [frames, bins].
Spectrogram(audio) ==
    [t \in 1..NumFrames(Len(audio)) |->
        LET frame == WindowedFrame(audio, t - 1)
        IN [k \in 1..NumBins |-> FHypot(RfftRe(frame, k - 1), RfftIm(frame, k - 1))]]

\* ---------------------------------------------------------------- mel_mat

\* 1000 * hertz_to_mel(f) = 1000 * 1127 * ln(1 + f / 700).
HertzToMel(f) == 1127 * (Ln1000(700 + f) - Ln1000(700))

\* Edge j (0-based) of linspace(mel(lower), mel(upper), N_MELS + 2).
BandEdge(j) ==
    LET lo == HertzToMel(LOWER_EDGE_HERTZ)
        hi == HertzToMel(SR \div 2)
    IN lo + (j * (hi - lo)) \div (N_MELS + 1)

\* Weight of spectrogram bin k for mel band m (both 0-based):
\* max(0, min(lower_slope, upper_slope)), the DC bin zeroed.
MelWeight(k, m) ==
    LET s == HertzToMel((k * (SR \div 2)) \div (NumBins - 1))
        lower == BandEdge(m)
        center == BandEdge(m + 1)
        upper == BandEdge(m + 2)
        ls == ((s - lower) * ONE) \div (center - lower)
        us == ((upper - s) * ONE) \div (upper - center)
    IN IF k = 0 \/ s <= lower \/ s >= upper THEN 0
       ELSE IF ls < us THEN ls ELSE us

\* tf.signal.linear_to_mel_weight_matrix(N_MELS, FFT_SIZE // 2 + 1, SR, 30.0, SR / 2.0).
LinearToMelWeightMatrix ==
    [k \in 1..NumBins |-> [m \in 1..N_MELS |-> MelWeight(k - 1, m - 1)]]

\* ---------------------------------------------------------------- extract_features

\* tf.tensordot(spectogram, mel_mat, axes=1): [frames, N_MELS].
MelSpec(spectogram, mm) ==
    [t \in 1..Len(spectogram) |->
        [m \in 1..Len(mm[1]) |->
            FSum([k \in 1..Len(mm) |-> FScale(spectogram[t][k], mm[k][m])])]]

\* Variant: the logarithm taken without the 1e-6 offset.
LogMelSpecNoEps(mel_spec) ==
    [t \in 1..Len(mel_spec) |->
        [m \in 1..Len(mel_spec[t]) |-> FLog(mel_spec[t][m])]]

\* tf.math.log(mel_spec + 1e-6).
LogMelSpec(mel_spec) ==
    [t \in 1..Len(mel_spec) |->
        [m \in 1..Len(mel_spec[t]) |-> FLog(FAdd(mel_spec[t][m], EPS))]]

\* tf.reduce_mean(log_mel_spec, axis=0): the mean over the frames, per mel band.
ReduceMeanAxis0(log_mel_spec, width) ==
    [m \in 1..width |-> FMean([t \in 1..Len(log_mel_spec) |-> log_mel_spec[t][m]])]

\* Variant: note and pitch in the other order.
MetaVectorSwapped(example) ==
    << CastFloat32(example.pitch),
       CastFloat32(example.note),
       CastFloat32(example.velocity),
       CastFloat32(example.sample_rate),
       CastFloat32(example.instrument_source) >>

\* Variant: the label among the metadata entries.
MetaVectorLeaky(example) ==
    << CastFloat32(example.note),
       CastFloat32(example.pitch),
       CastFloat32(example.velocity),
       CastFloat32(example.sample_rate),
       CastFloat32(example.instrument_family) >>

\* The five metadata entries, cast to float32.
MetaVector(example) ==
    << CastFloat32(example.note),
       CastFloat32(example.pitch),
       CastFloat32(example.velocity),
       CastFloat32(example.sample_rate),
       CastFloat32(example.instrument_source) >>

\* Variant: the mean over the frames taken before the logarithm.
extract_features_log_of_mean(mm, example) ==
    LET spectogram == Spectrogram(example.audio)
        mel_spec == MelSpec(spectogram, mm)
        mean_spec == ReduceMeanAxis0(mel_spec, Len(mm[1]))
        mel == [m \in 1..Len(mm[1]) |-> FLog(FAdd(mean_spec[m], EPS))]
    IN [features |-> MetaVector(example) \o mel,
        label |-> example.instrument_family]

\* Variant: the ten quality flags concatenated after the metadata entries.
extract_features_with_qualities(mm, example) ==
    LET spectogram == Spectrogram(example.audio)
        mel_spec == MelSpec(spectogram, mm)
        log_mel_spec == LogMelSpec(mel_spec)
        mel == ReduceMeanAxis0(log_mel_spec, Len(mm[1]))
    IN [features |-> MetaVector(example)
                        \o [q \in 1..Len(example.qualities) |-> CastFloat32(example.qualities[q])]
                        \o mel,
        label |-> example.instrument_family]

\* extract_features(example): the pair (feature_vector, label).
extract_features(mm, example) ==
    LET spectogram == Spectrogram(example.audio)
        mel_spec == MelSpec(spectogram, mm)
        log_mel_spec == LogMelSpec(mel_spec)
        mel == ReduceMeanAxis0(log_mel_spec, Len(mm[1]))
    IN [features |-> MetaVector(example) \o mel,
        label |-> example.instrument_family]

\* ---------------------------------------------------------------- records

\* The names of the instrument families and sources (the *_str features).
FamilyStr(f) == IF f = 0 THEN "bass" ELSE IF f = 3 THEN "guitar" ELSE "vocal"
SourceStr(c) == IF c = 0 THEN "acoustic" ELSE IF c = 1 THEN "electronic" ELSE "synthetic"

\* A serialized tf.Example: whether its bytes decode, and its features.
Record(note, instrument, pitch, velocity, source, family, qualities, quality_names, audio) ==
    [proto_ok |-> TRUE,
     note |-> note,
     note_str |-> <<FamilyStr(family), SourceStr(source), instrument, pitch, velocity>>,
     instrument |-> instrument,
     instrument_str |-> <<FamilyStr(family), SourceStr(source), instrument>>,
     pitch |-> pitch,
     velocity |-> velocity,
     sample_rate |-> SR,
     audio |-> audio,
     qualities |-> qualities,
     qualities_str |-> quality_names,
     instrument_family |-> family,
     instrument_family_str |-> FamilyStr(family),
     instrument_source |-> source,
     instrument_source_str |-> SourceStr(source)]

NoQualities == [q \in 1..QUALITIES_LEN |-> 0]
BrightQualities == [q \in 1..QUALITIES_LEN |-> IF q = 1 THEN 1 ELSE 0]

\* Waveforms of AUDIO_LEN samples, in units of 1e-6 (1000000 is full scale, 1.0).
Silent == [n \in 1..AUDIO_LEN |-> 0]
Impulse == [n \in 1..AUDIO_LEN |-> IF n = 3 THEN 1000000 ELSE 0]
Tone == [n \in 1..AUDIO_LEN |-> IF n % 2 = 1 THEN 1000000 ELSE -1000000]
Decay == [n \in 1..AUDIO_LEN |-> 600000 \div n]
Loud == [n \in 1..AUDIO_LEN |-> FltMax]
LoudTone == [n \in 1..AUDIO_LEN |-> IF n % 2 = 1 THEN FltMax ELSE 0 - FltMax]

\* ---------------------------------------------------------------- parse_tfrecord

\* Variant: the declared shapes of audio and qualities are not enforced.
parse_tfrecord_lenient(file) ==
    IF file.proto_ok
    THEN [tag |-> "ok",
          val |-> [f \in DOMAIN file \ {"proto_ok"} |-> file[f]]]
    ELSE [tag |-> "err"]

\* tf.io.parse_single_example(file, feature_description): the parsed example, or
\* the error raised for bytes that do not decode or a FixedLenFeature whose
\* shape differs from the declared one.
parse_tfrecord(file) ==
    IF file.proto_ok /\ Len(file.audio) = AUDIO_LEN /\ Len(file.qualities) = QUALITIES_LEN
    THEN [tag |-> "ok",
          val |-> [note |-> file.note,
                   note_str |-> file.note_str,
                   instrument |-> file.instrument,
                   instrument_str |-> file.instrument_str,
                   pitch |-> file.pitch,
                   velocity |-> file.velocity,
                   sample_rate |-> file.sample_rate,
                   audio |-> file.audio,
                   qualities |-> file.qualities,
                   qualities_str |-> file.qualities_str,
                   instrument_family |-> file.instrument_family,
                   instrument_family_str |-> file.instrument_family_str,
                   instrument_source |-> file.instrument_source,
                   instrument_source_str |-> file.instrument_source_str]]
    ELSE [tag |-> "err"]

Pending == [tag |-> "pending"]

\* ---------------------------------------------------------------- state

VARIABLES
    mel_mat,      \* the global mel weight matrix
    pc,           \* the cell the run is at: a split, "fit", ..., "done", "error"
    files,        \* the records of each TFRecord file opened so far
    opened,       \* the splits whose file was opened
    in_proc,      \* inside process_dataset
    dataset,      \* process_dataset: the records of the TFRecordDataset
    count,        \* process_dataset: the total shown by the progress bar
    parsed,       \* the results of the first map, per record
    feats,        \* the results of the second map, per record
    X, y,         \* process_dataset: the lists built by the loop
    X_train, y_train, X_val, y_val, X_test, y_test,
    bound,        \* the global names assigned so far
    nb_model,     \* the GaussianNB estimator
    train_pred, test_pred,
    printed,      \* the classification reports printed
    calls         \* the calls made so far, in order

vars == << mel_mat, pc, files, opened, in_proc, dataset, count, parsed, feats, X, y,
           X_train, y_train, X_val, y_val, X_test, y_test, bound, nb_model,
           train_pred, test_pred, printed, calls >>

procVars == << dataset, count, parsed, feats, X, y >>
globalVars == << X_train, y_train, X_val, y_val, X_test, y_test, bound >>
evalVars == << nb_model, train_pred, test_pred, printed >>

Splits == <<"train", "valid", "test">>
SplitSet == {"train", "valid", "test"}

dataset_sizes == [split \in SplitSet |->
    IF split = "train" THEN 289205 ELSE IF split = "valid" THEN 12678 ELSE 4096]

\* '../datasets/nsynth-<split>.tfrecord', as its parts.
TfrecordPath(split) == <<"..", "datasets", "nsynth", split, "tfrecord">>

\* The loop over dataset_sizes.items(): count = size for each split found in path.
RECURSIVE CountLoop(_, _, _)
CountLoop(path, k, c) ==
    IF k > Len(Splits) THEN c
    ELSE CountLoop(path, k + 1,
                   IF \E p \in 1..Len(path) : path[p] = Splits[k]
                   THEN dataset_sizes[Splits[k]] ELSE c)

\* The records a file may hold.
RecA == Record(60, 417, 64, 100, 0, 3, NoQualities, << >>, Impulse)
RecB == Record(61, 12, 40, 75, 2, 0, BrightQualities, <<"bright">>, Tone)
ShortAudio == [RecA EXCEPT !.audio = SubSeq(Impulse, 1, AUDIO_LEN - 1)]
ShortQualities == [RecB EXCEPT !.qualities = SubSeq(NoQualities, 1, QUALITIES_LEN - 1)]
Corrupt == [RecB EXCEPT !.proto_ok = FALSE]
FileRecords == {RecA, RecB, ShortAudio, ShortQualities, Corrupt}

RECURSIVE SeqsUpTo(_, _)
SeqsUpTo(S, n) ==
    IF n = 0 THEN {<< >>}
    ELSE LET shorter == SeqsUpTo(S, n - 1)
         IN shorter \cup {Append(f, r) : f \in {g \in shorter : Len(g) = n - 1}, r \in S}

MaxRecords(split) == IF split = "train" THEN MaxTrain ELSE MaxEval

Unfitted == [fitted |-> FALSE, X |-> << >>, y |-> << >>]
NoPred == [model |-> Unfitted, X |-> << >>]

Init ==
    /\ mel_mat = LinearToMelWeightMatrix
    /\ pc = "train"
    /\ files = [s \in SplitSet |-> << >>]
    /\ opened = {}
    /\ in_proc = FALSE
    /\ dataset = << >> /\ count = 0 /\ parsed = << >> /\ feats = << >>
    /\ X = << >> /\ y = << >>
    /\ X_train = << >> /\ y_train = << >>
    /\ X_val = << >> /\ y_val = << >>
    /\ X_test = << >> /\ y_test = << >>
    /\ bound = {}
    /\ nb_model = Unfitted
    /\ train_pred = NoPred /\ test_pred = NoPred
    /\ printed = << >>
    /\ calls = << >>

\* ---------------------------------------------------------------- process_dataset

Call(fn, args) == [fn |-> fn, args |-> args]

\* process_dataset(path) up to the loop: the file is opened, count is set, the
\* two maps are attached.
ProcessOpen ==
    /\ pc \in SplitSet /\ ~in_proc
    /\ \E f \in SeqsUpTo(FileRecords, MaxRecords(pc)) :
          /\ files' = [files EXCEPT ![pc] = f]
          /\ dataset' = f
          /\ parsed' = [i \in 1..Len(f) |-> Pending]
          /\ feats' = [i \in 1..Len(f) |-> Pending]
    /\ opened' = opened \cup {pc}
    /\ count' = CountLoop(TfrecordPath(pc), 1, 0)
    /\ X' = << >> /\ y' = << >>
    /\ in_proc' = TRUE
    /\ calls' = Append(calls, Call("process_dataset", <<pc>>))
    /\ UNCHANGED << mel_mat, pc, globalVars, evalVars >>

\* One parallel call of the first map completes: record i is parsed.
ParseDone(i) ==
    /\ in_proc /\ i \in 1..Len(parsed) /\ parsed[i].tag = "pending"
    /\ parsed' = [parsed EXCEPT ![i] = parse_tfrecord(dataset[i])]
    /\ UNCHANGED << mel_mat, pc, files, opened, in_proc, dataset, count, feats, X, y,
                    globalVars, evalVars, calls >>

\* Variant: the call rescales the shared mel_mat in place.
ExtractDoneInPlace(i) ==
    /\ in_proc /\ i \in 1..Len(feats) /\ feats[i].tag = "pending"
    /\ \A j \in 1..i : parsed[j].tag # "pending"
    /\ feats' = [feats EXCEPT ![i] =
                    IF parsed[i].tag = "ok"
                    THEN [tag |-> "ok", val |-> extract_features(mel_mat, parsed[i].val)]
                    ELSE [tag |-> "err"]]
    /\ mel_mat' = [k \in 1..Len(mel_mat) |->
                      [m \in 1..Len(mel_mat[k]) |-> mel_mat[k][m] \div 2]]
    /\ UNCHANGED << pc, files, opened, in_proc, dataset, count, parsed, X, y,
                    globalVars, evalVars, calls >>

\* One parallel call of the second map completes: element i, taken from the first
\* map in order, is featurized; an element that failed to parse stays an error.
ExtractDone(i) ==
    /\ in_proc /\ i \in 1..Len(feats) /\ feats[i].tag = "pending"
    /\ \A j \in 1..i : parsed[j].tag # "pending"
    /\ feats' = [feats EXCEPT ![i] =
                    IF parsed[i].tag = "ok"
                    THEN [tag |-> "ok", val |-> extract_features(mel_mat, parsed[i].val)]
                    ELSE [tag |-> "err"]]
    /\ UNCHANGED << mel_mat, pc, files, opened, in_proc, dataset, count, parsed, X, y,
                    globalVars, evalVars, calls >>

\* Variant: the loop receives the elements as they complete (a map that is not
\* deterministic), an element that is ready before its predecessors first.
ConsumeAnyReady ==
    /\ in_proc /\ Len(X) < Len(feats)
    /\ \E j \in 1..Len(feats) :
          /\ feats[j].tag = "ok"
          /\ \A c \in 1..Len(X) : X[c] # feats[j].val.features
          /\ X' = Append(X, feats[j].val.features)
          /\ y' = Append(y, feats[j].val.label)
    /\ UNCHANGED << mel_mat, pc, in_proc, files, opened, dataset, count, parsed, feats,
                    globalVars, evalVars, calls >>

\* One pass of the loop: the next element, in order, is appended, or its error
\* is raised out of process_dataset and the run stops.
Consume ==
    /\ in_proc /\ Len(X) < Len(feats)
    /\ LET e == feats[Len(X) + 1]
       IN /\ e.tag # "pending"
          /\ IF e.tag = "ok"
             THEN /\ X' = Append(X, e.val.features)
                  /\ y' = Append(y, e.val.label)
                  /\ UNCHANGED << pc, in_proc >>
             ELSE /\ X' = << >> /\ y' = << >>
                  /\ pc' = "error"
                  /\ in_proc' = FALSE
    /\ UNCHANGED << mel_mat, files, opened, dataset, count, parsed, feats,
                    globalVars, evalVars, calls >>

NextCell(cell) ==
    IF cell = "train" THEN "valid"
    ELSE IF cell = "valid" THEN "test"
    ELSE IF cell = "test" THEN "fit"
    ELSE IF cell = "fit" THEN "predict_val"
    ELSE IF cell = "predict_val" THEN "report_val"
    ELSE IF cell = "report_val" THEN "predict_test"
    ELSE IF cell = "predict_test" THEN "report_test"
    ELSE "done"

\* The dataset is exhausted: process_dataset returns X, y, which the cell assigns.
Return ==
    /\ in_proc /\ Len(X) = Len(feats)
    /\ IF pc = "train" THEN /\ X_train' = X /\ y_train' = y
                            /\ bound' = bound \cup {"X_train", "y_train"}
                            /\ UNCHANGED << X_val, y_val, X_test, y_test >>
       ELSE IF pc = "valid" THEN /\ X_val' = X /\ y_val' = y
                                 /\ bound' = bound \cup {"X_val", "y_val"}
                                 /\ UNCHANGED << X_train, y_train, X_test, y_test >>
       ELSE /\ X_test' = X /\ y_test' = y
            /\ bound' = bound \cup {"X_test", "y_test"}
            /\ UNCHANGED << X_train, y_train, X_val, y_val >>
    /\ X' = << >> /\ y' = << >>
    /\ in_proc' = FALSE
    /\ pc' = NextCell(pc)
    /\ UNCHANGED << mel_mat, files, opened, dataset, count, parsed, feats, evalVars, calls >>

\* ---------------------------------------------------------------- train / evaluate

\* sklearn's input validation: an empty array or a non-finite entry is a ValueError.
Rejected(Xs) ==
    \/ Xs = << >>
    \/ \E i \in 1..Len(Xs) : \E c \in 1..Len(Xs[i]) : ~IsFinite(Xs[i][c])

\* train_model(model, X_train, y_train, model_name): model.fit(X_train, y_train);
\* the fitted estimator is a function of the data it was fit on.
train_model(model, Xs, ys) ==
    IF Rejected(Xs) THEN [tag |-> "err"]
    ELSE [tag |-> "ok", val |-> [fitted |-> TRUE, X |-> Xs, y |-> ys]]

\* model.predict(X): a function of the fitted estimator and of X.
predict(model, Xs) ==
    IF ~model.fitted \/ Rejected(Xs) THEN [tag |-> "err"]
    ELSE [tag |-> "ok", val |-> [model |-> model, X |-> Xs]]

classification_report(y_true, y_pred) == [y_true |-> y_true, y_pred |-> y_pred]

\* Variant: the estimator is fit on the validation split.
FitCellOnVal ==
    /\ pc = "fit"
    /\ calls' = Append(calls, Call("fit", <<"X_val", "y_val">>))
    /\ LET r == train_model(Unfitted, X_val, y_val)
       IN IF r.tag = "ok"
          THEN nb_model' = r.val /\ pc' = NextCell(pc)
          ELSE nb_model' = Unfitted /\ pc' = "error"
    /\ UNCHANGED << mel_mat, files, opened, in_proc, procVars, globalVars,
                    train_pred, test_pred, printed >>

\* nb_model = GaussianNB(); nb_model = train_model(nb_model, X_train, y_train, ...).
FitCell ==
    /\ pc = "fit"
    /\ calls' = Append(calls, Call("fit", <<"X_train", "y_train">>))
    /\ LET r == train_model(Unfitted, X_train, y_train)
       IN IF r.tag = "ok"
          THEN nb_model' = r.val /\ pc' = NextCell(pc)
          ELSE nb_model' = Unfitted /\ pc' = "error"
    /\ UNCHANGED << mel_mat, files, opened, in_proc, procVars, globalVars,
                    train_pred, test_pred, printed >>

\* train_pred = nb_model.predict(X_val).
PredictValCell ==
    /\ pc = "predict_val"
    /\ calls' = Append(calls, Call("predict", <<"X_val">>))
    /\ LET r == predict(nb_model, X_val)
       IN IF r.tag = "ok"
          THEN train_pred' = r.val /\ pc' = NextCell(pc)
          ELSE train_pred' = train_pred /\ pc' = "error"
    /\ UNCHANGED << mel_mat, files, opened, in_proc, procVars, globalVars,
                    nb_model, test_pred, printed >>

\* print(classification_report(y_val, train_pred)).
ReportValCell ==
    /\ pc = "report_val"
    /\ printed' = Append(printed, classification_report(y_val, train_pred))
    /\ calls' = Append(calls, Call("classification_report", <<"y_val", "train_pred">>))
    /\ pc' = NextCell(pc)
    /\ UNCHANGED << mel_mat, files, opened, in_proc, procVars, globalVars,
                    nb_model, train_pred, test_pred >>

\* test_pred = nb_model.predict(X_test).
PredictTestCell ==
    /\ pc = "predict_test"
    /\ calls' = Append(calls, Call("predict", <<"X_test">>))
    /\ LET r == predict(nb_model, X_test)
       IN IF r.tag = "ok"
          THEN test_pred' = r.val /\ pc' = NextCell(pc)
          ELSE test_pred' = test_pred /\ pc' = "error"
    /\ UNCHANGED << mel_mat, files, opened, in_proc, procVars, globalVars,
                    nb_model, train_pred, printed >>

\* print(classification_report(y_test, test_pred)).
ReportTestCell ==
    /\ pc = "report_test"
    /\ printed' = Append(printed, classification_report(y_test, test_pred))
    /\ calls' = Append(calls, Call("classification_report", <<"y_test", "test_pred">>))
    /\ pc' = NextCell(pc)
    /\ UNCHANGED << mel_mat, files, opened, in_proc, procVars, globalVars,
                    nb_model, train_pred, test_pred >>

Next ==
    \/ ProcessOpen
    \/ \E i \in 1..Len(parsed) : ParseDone(i)
    \/ \E i \in 1..Len(feats) : ExtractDone(i)
    \/ Consume
    \/ Return
    \/ FitCell
    \/ PredictValCell
    \/ ReportValCell
    \/ PredictTestCell
    \/ ReportTestCell

Spec == Init /\ [][Next]_vars

\* ---------------------------------------------------------------- extract_features alone

\* Examples over a range of waveforms and metadata values, and for each a
\* second example that differs from it in chosen fields only.
Waveforms == {Silent, Impulse, Tone, Decay, Loud, LoudTone}

ExampleRecords ==
    {Record(note, 417, pitch, 127, source, family, qualities,
            IF qualities = NoQualities THEN << >> ELSE <<"bright">>, audio) :
        note \in {60, 305978, 16777217}, pitch \in {21}, source \in {0, 2},
        family \in {0, 3}, qualities \in {NoQualities},
        audio \in Waveforms}

Variations == {"same", "label", "qualities", "note", "audio"}

Vary(r, kind) ==
    LET family == IF r.instrument_family = 0 THEN 10 ELSE 0
        qualities == IF r.qualities = NoQualities THEN BrightQualities ELSE NoQualities
        names == IF r.qualities = NoQualities THEN <<"bright">> ELSE << >>
    IN IF kind = "label"
       THEN Record(r.note, r.instrument + 1, r.pitch, r.velocity, r.instrument_source,
                   family, qualities, names, r.audio)
       ELSE IF kind = "qualities"
       THEN [r EXCEPT !.qualities = qualities, !.qualities_str = names]
       ELSE IF kind = "note" THEN [r EXCEPT !.note = r.note + 2]
       ELSE IF kind = "audio"
       THEN [r EXCEPT !.audio = IF r.audio = Silent THEN Impulse ELSE Silent]
       ELSE r

\* Inside process_dataset(train_tfrecord), a file of two well-formed records
\* parsed: the calls of extract_features remain.
InitExtract ==
    /\ mel_mat = LinearToMelWeightMatrix
    /\ pc = "train"
    /\ \E r \in ExampleRecords : \E kind \in Variations :
          /\ dataset = <<r, Vary(r, kind)>>
          /\ files = [s \in SplitSet |-> IF s = "train" THEN <<r, Vary(r, kind)>> ELSE << >>]
          /\ parsed = <<parse_tfrecord(r), parse_tfrecord(Vary(r, kind))>>
    /\ opened = {"train"}
    /\ in_proc = TRUE
    /\ count = CountLoop(TfrecordPath("train"), 1, 0)
    /\ feats = <<Pending, Pending>>
    /\ X = << >> /\ y = << >>
    /\ X_train = << >> /\ y_train = << >>
    /\ X_val = << >> /\ y_val = << >>
    /\ X_test = << >> /\ y_test = << >>
    /\ bound = {}
    /\ nb_model = Unfitted
    /\ train_pred = NoPred /\ test_pred = NoPred
    /\ printed = << >>
    /\ calls = <<Call("process_dataset", <<"train">>)>>

NextExtract == \E i \in 1..Len(feats) : ExtractDone(i)

SpecExtract == InitExtract /\ [][NextExtract]_vars

\* ---------------------------------------------------------------- properties

IsOk(i) == i \in 1..Len(feats) /\ feats[i].tag = "ok"
Example(i) == parsed[i].val
FeatureVector(i) == feats[i].val.features
Label(i) == feats[i].val.label

\* C1: for every parsed example, whatever its samples and metadata, the feature
\* vector is a sequence of numbers of length 133 = 5 + N_MELS.
C1_FixedLength ==
    \A i \in 1..Len(feats) :
        IsOk(i) =>
            /\ Len(FeatureVector(i)) = 133
            /\ 133 = 5 + N_MELS
            /\ DOMAIN FeatureVector(i) = 1..133
            /\ \A c \in 1..133 : FeatureVector(i)[c] \in Int

\* C1 witness: both examples of a pair featurized, one of them with an
\* overflowing waveform and a metadata value beyond the float32 integers.
C1_Witness ==
    /\ IsOk(1) /\ IsOk(2)
    /\ Example(1).audio = Loud /\ Example(1).note = 16777217
    /\ Example(2).audio = Silent

\* C2 as stated: entries 0..4 of the feature vector are note, pitch, velocity,
\* sample_rate and instrument_source, each equal to the input field.
C2_MetadataEqual ==
    \A i \in 1..Len(feats) :
        IsOk(i) =>
            /\ FeatureVector(i)[1] = Example(i).note
            /\ FeatureVector(i)[2] = Example(i).pitch
            /\ FeatureVector(i)[3] = Example(i).velocity
            /\ FeatureVector(i)[4] = Example(i).sample_rate
            /\ FeatureVector(i)[5] = Example(i).instrument_source

ExactInFloat32(v) == Abs(v) <= Pow2(MantBits)

\* C2 amended: each of the entries 0..4 equals its input field whenever the
\* field's magnitude is at most 2^24.
C2_MetadataEqualWhenExact ==
    \A i \in 1..Len(feats) :
        IsOk(i) =>
            /\ ExactInFloat32(Example(i).note) => FeatureVector(i)[1] = Example(i).note
            /\ ExactInFloat32(Example(i).pitch) => FeatureVector(i)[2] = Example(i).pitch
            /\ ExactInFloat32(Example(i).velocity) => FeatureVector(i)[3] = Example(i).velocity
            /\ ExactInFloat32(Example(i).sample_rate)
                  => FeatureVector(i)[4] = Example(i).sample_rate
            /\ ExactInFloat32(Example(i).instrument_source)
                  => FeatureVector(i)[5] = Example(i).instrument_source

\* C2 witness: an example with five distinct metadata values, all within 2^24,
\* featurized.
C2_Witness ==
    /\ IsOk(1)
    /\ Example(1).note = 305978 /\ Example(1).pitch = 21 /\ Example(1).velocity = 127
    /\ Example(1).sample_rate = 16000 /\ Example(1).instrument_source = 2
    /\ FeatureVector(1)[1] = 305978

\* C3 as stated: the quality flags are among the features, so two examples with
\* the same feature vector have the same quality flags.
C3_QualitiesInFeatures ==
    \A i, j \in 1..Len(feats) :
        (IsOk(i) /\ IsOk(j) /\ FeatureVector(i) = FeatureVector(j))
            => Example(i).qualities = Example(j).qualities

\* The sequence s with its entries computed once.
Evaluated(s) == SubSeq(s, 1, Len(s))

\* C7: the mel entries occupy positions 5..132 and entry 5 + m is the mean over
\* the frames of log(sum over bins of magnitude * weight + 1e-6) for mel band m.
C7_MeanOfLogs ==
    \A i \in 1..Len(feats) :
        IsOk(i) =>
            LET frames == 1..NumFrames(AUDIO_LEN)
                magnitude == Evaluated([t \in frames |->
                                Evaluated(Spectrogram(Example(i).audio)[t])])
            IN /\ Len(FeatureVector(i)) = 5 + N_MELS
               /\ \A m \in 1..N_MELS :
                     FeatureVector(i)[5 + m] =
                        FMean([t \in frames |->
                            FLog(FAdd(FSum([k \in 1..NumBins |->
                                    FScale(magnitude[t][k], mel_mat[k][m])]), EPS))])

\* C7 witness: a waveform whose frames differ, featurized, with a mel band that
\* received energy.
C7_Witness ==
    /\ IsOk(1) /\ Example(1).audio = Impulse
    /\ \E m \in 1..N_MELS : FeatureVector(1)[5 + m] > LN_UNIT

SameFeatureInputs(a, b) ==
    /\ a.audio = b.audio /\ a.note = b.note /\ a.pitch = b.pitch
    /\ a.velocity = b.velocity /\ a.sample_rate = b.sample_rate
    /\ a.instrument_source = b.instrument_source

MelEntriesFinite(i) ==
    \A m \in 1..N_MELS :
        IsFinite(FeatureVector(i)[5 + m]) /\ FeatureVector(i)[5 + m] >= LN_UNIT

\* C10 as stated: for every waveform of finite samples each of the 128 mel
\* entries is finite and at least log(1e-6).
C10_MelFinite ==
    \A i \in 1..Len(feats) :
        (IsOk(i) /\ \A n \in 1..AUDIO_LEN : IsFinite(Example(i).audio[n]))
            => MelEntriesFinite(i)

\* Samples within [-1, 1] (1000000 units of 1e-6).
InNominalRange(audio) == \A n \in 1..Len(audio) : Abs(audio[n]) <= 1000000

\* C10 amended: for every waveform with samples in [-1, 1], the silent one
\* included, each of the 128 mel entries is finite and at least log(1e-6).
C10_MelFiniteInRange ==
    \A i \in 1..Len(feats) :
        (IsOk(i) /\ InNominalRange(Example(i).audio)) => MelEntriesFinite(i)

\* C10 witness: the silent waveform featurized, its mel entries at log(1e-6).
C10_Witness ==
    /\ IsOk(1) /\ Example(1).audio = Silent
    /\ \A m \in 1..N_MELS : FeatureVector(1)[5 + m] = LN_UNIT

\* ---------------------------------------------------------------- the run

Returned(split) == split \in opened /\ (IF split = "train" THEN "X_train" \in bound
                                        ELSE IF split = "valid" THEN "X_val" \in bound
                                        ELSE "X_test" \in bound)
XOf(split) == IF split = "train" THEN X_train ELSE IF split = "valid" THEN X_val ELSE X_test
YOf(split) == IF split = "train" THEN y_train ELSE IF split = "valid" THEN y_val ELSE y_test

\* What extract_features returns for the two well-formed records of a file.
OutOfRecA == extract_features(LinearToMelWeightMatrix, parse_tfrecord(RecA).val)
OutOfRecB == extract_features(LinearToMelWeightMatrix, parse_tfrecord(RecB).val)
OutOf(record) == IF record = RecA THEN OutOfRecA ELSE OutOfRecB

Malformed(record) ==
    \/ ~record.proto_ok
    \/ Len(record.audio) # AUDIO_LEN
    \/ Len(record.qualities) # QUALITIES_LEN

HasMalformed(f) == \E i \in 1..Len(f) : Malformed(f[i])

IsPrefix(a, b) == Len(a) <= Len(b) /\ \A i \in 1..Len(a) : a[i] = b[i]

\* C4: mel_mat keeps the value it was given, and records with equal fields get
\* equal feature vectors and labels, whichever call, position or split they
\* were processed in.
C4_Deterministic ==
    /\ mel_mat = LinearToMelWeightMatrix
    /\ \A s, t \in SplitSet :
          (Returned(s) /\ Returned(t)) =>
              \A i \in 1..Len(files[s]) : \A j \in 1..Len(files[t]) :
                  files[s][i] = files[t][j] =>
                      XOf(s)[i] = XOf(t)[j] /\ YOf(s)[i] = YOf(t)[j]
    /\ \A s \in SplitSet :
          (Returned(s) /\ in_proc) =>
              \A i \in 1..Len(files[s]) : \A j \in 1..Len(feats) :
                  (feats[j].tag = "ok" /\ files[s][i] = dataset[j]) =>
                      feats[j].val = [features |-> XOf(s)[i], label |-> YOf(s)[i]]

\* C4 witness: the same record featurized in the training run after another
\* record, and again in the test run, two splits later.
C4_Witness ==
    /\ Returned("train") /\ Returned("test")
    /\ files["train"] = <<RecB, RecA>> /\ files["test"] = <<RecA>>
    /\ X_train[2] = X_test[1]

TheOrder ==
    << Call("process_dataset", <<"train">>),
       Call("process_dataset", <<"valid">>),
       Call("process_dataset", <<"test">>),
       Call("fit", <<"X_train", "y_train">>),
       Call("predict", <<"X_val">>),
       Call("classification_report", <<"y_val", "train_pred">>),
       Call("predict", <<"X_test">>),
       Call("classification_report", <<"y_test", "test_pred">>) >>

FitCalls == {c \in 1..Len(calls) : calls[c].fn = "fit"}

\* C5: the calls are a prefix of the one order decode, featurize, fit, evaluate;
\* fit is called at most once, after process_dataset returned for the training
\* split, on that split's features and labels; a prediction is made by the
\* fitted estimator, on the split the cell names.
C5_LinearOrder ==
    /\ IsPrefix(calls, TheOrder)
    /\ Cardinality(FitCalls) <= 1
    /\ FitCalls # {} => (Returned("train") /\ Returned("valid") /\ Returned("test") /\ ~in_proc)
    /\ nb_model.fitted =>
          /\ FitCalls # {}
          /\ nb_model.X = X_train /\ nb_model.y = y_train
          /\ Len(nb_model.X) = Len(files["train"])
          /\ \A i \in 1..Len(files["train"]) :
                /\ nb_model.X[i] = OutOf(files["train"][i]).features
                /\ nb_model.y[i] = OutOf(files["train"][i]).label
    /\ train_pred # NoPred =>
          /\ nb_model.fitted /\ train_pred.model = nb_model /\ train_pred.X = X_val
    /\ test_pred # NoPred =>
          /\ nb_model.fitted /\ test_pred.model = nb_model /\ test_pred.X = X_test
    /\ pc = "done" => (calls = TheOrder /\ Cardinality(FitCalls) = 1)

\* C5 witness: the run completed, the training and validation data differing.
C5_Witness ==
    /\ pc = "done"
    /\ files["train"] = <<RecA, RecB>> /\ files["valid"] = <<RecB>>
    /\ Len(printed) = 2

\* C6: once a file with a malformed record is opened, its split's X, y are
\* never assigned, the loop never gets past the first malformed record, and
\* the run is inside that process_dataset or stopped by the error.
C6_MalformedFails ==
    \A s \in opened :
        HasMalformed(files[s]) =>
            /\ ~Returned(s)
            /\ pc \in {s, "error"}
            /\ pc = s => (in_proc /\ \A i \in 1..Len(X) : ~Malformed(dataset[i]))
            /\ pc = "error" => (~in_proc /\ X = << >> /\ y = << >>)

\* C6 witness: the run stopped by the short-audio record that follows a
\* well-formed one in the training file.
C6_Witness ==
    /\ pc = "error"
    /\ files["train"] = <<RecA, ShortAudio>>
    /\ feats[1].tag = "ok" /\ feats[2].tag = "err"
    /\ "X_train" \notin bound

\* C8: the lists built by process_dataset hold, entry for entry and in the
\* file's order, the features and the label of the records read so far, and
\* the lists returned hold those of every record; count is the split's size
\* in dataset_sizes, whatever the file holds.
C8_OrderPreserved ==
    /\ Len(X) = Len(y)
    /\ in_proc =>
          /\ Len(X) <= Len(dataset)
          /\ count = dataset_sizes[pc]
          /\ \A i \in 1..Len(X) :
                X[i] = OutOf(dataset[i]).features /\ y[i] = OutOf(dataset[i]).label
    /\ \A s \in SplitSet :
          Returned(s) =>
              /\ Len(XOf(s)) = Len(files[s]) /\ Len(YOf(s)) = Len(files[s])
              /\ \A i \in 1..Len(files[s]) :
                    /\ XOf(s)[i] = OutOf(files[s][i]).features
                    /\ YOf(s)[i] = OutOf(files[s][i]).label

\* C8 witness: process_dataset returned two different records in the file's
\* order, with count far from the number of records.
C8_Witness ==
    /\ Returned("train") /\ pc = "valid" /\ ~in_proc
    /\ files["train"] = <<RecB, RecA>>
    /\ X_train = <<OutOfRecB.features, OutOfRecA.features>>
    /\ y_train = <<0, 3>>
    /\ count = 289205

====
